---- MODULE Spec2Model ----
(***************************************************************************)
(* create-k8s-app: the bootstrap pipeline of createK8sApp.js               *)
(* (createApp -> isSafeToCreateProjectIn -> run -> getInstallPackage ->    *)
(* getPackageName -> install -> init, with the rollback handler of run).   *)
(* Strings are TLA+ strings; the regular expressions and string methods    *)
(* the code uses are operators over them, computed as JavaScript computes  *)
(* them.  The file system is the target directory (a set of entry names),  *)
(* the process is its position pc, its working directory and its exit.     *)
(***************************************************************************)
EXTENDS Integers, Sequences, FiniteSets, TLC

(***************************************************************************)
(* String primitives (JavaScript String methods).                          *)
(***************************************************************************)
Char(s, i) == SubSeq(s, i, i)

From(s, i) == SubSeq(s, i, Len(s))

StartsWith(s, p) == Len(s) >= Len(p) /\ SubSeq(s, 1, Len(p)) = p

EndsWith(s, p) == Len(s) >= Len(p) /\ SubSeq(s, Len(s) - Len(p) + 1, Len(s)) = p

\* The 1-based positions at which p occurs in s.
Occurrences(s, p) == {i \in 1..(Len(s) - Len(p) + 1) : SubSeq(s, i, i + Len(p) - 1) = p}

Min(S) == CHOOSE x \in S : \A y \in S : x <= y

Max(S) == CHOOSE x \in S : \A y \in S : x >= y

\* String.prototype.indexOf: 0-based position of the first occurrence, -1 if none.
IndexOf(s, p) == IF Occurrences(s, p) = {} THEN -1 ELSE Min(Occurrences(s, p)) - 1

Digits == {"0", "1", "2", "3", "4", "5", "6", "7", "8", "9"}

IsDigit(c) == c \in Digits

Letters ==
    {"a", "b", "c", "d", "e", "f", "g", "h", "i", "j", "k", "l", "m",
     "n", "o", "p", "q", "r", "s", "t", "u", "v", "w", "x", "y", "z",
     "A", "B", "C", "D", "E", "F", "G", "H", "I", "J", "K", "L", "M",
     "N", "O", "P", "Q", "R", "S", "T", "U", "V", "W", "X", "Y", "Z"}

\* String.prototype.split on a one-character separator.
RECURSIVE Split(_, _)
Split(s, c) ==
    IF Occurrences(s, c) = {}
    THEN <<s>>
    ELSE LET i == Min(Occurrences(s, c))
         IN  <<SubSeq(s, 1, i - 1)>> \o Split(From(s, i + 1), c)

(***************************************************************************)
(* path (POSIX): resolve, join, basename.                                  *)
(***************************************************************************)
RECURSIVE NormalizeSegments(_, _)
NormalizeSegments(segs, acc) ==
    IF Len(segs) = 0
    THEN acc
    ELSE LET h == Head(segs)
             next == IF h = "" \/ h = "."
                     THEN acc
                     ELSE IF h = ".."
                          THEN IF Len(acc) = 0 THEN acc ELSE SubSeq(acc, 1, Len(acc) - 1)
                          ELSE Append(acc, h)
         IN  NormalizeSegments(Tail(segs), next)

RECURSIVE JoinSegments(_)
JoinSegments(segs) ==
    IF Len(segs) = 0 THEN "" ELSE "/" \o Head(segs) \o JoinSegments(Tail(segs))

\* path.resolve(from, to) with from absolute.
PathResolve(from, to) ==
    LET full == IF StartsWith(to, "/") THEN to ELSE from \o "/" \o to
        segs == NormalizeSegments(Split(full, "/"), <<>>)
    IN  IF Len(segs) = 0 THEN "/" ELSE JoinSegments(segs)

\* path.join(dir, file) with dir absolute.
PathJoin(dir, file) == PathResolve(dir, file)

\* path.basename of an absolute, normalized path.
PathBasename(p) ==
    LET segs == NormalizeSegments(Split(p, "/"), <<>>)
    IN  IF Len(segs) = 0 THEN "" ELSE segs[Len(segs)]

(***************************************************************************)
(* semver.valid (strict): the normalized version, "" for null.             *)
(***************************************************************************)
AllChars(s, set) == \A i \in 1..Len(s) : Char(s, i) \in set

\* NUMERICIDENTIFIER: 0|[1-9]\d*
IsNumericId(s) ==
    /\ Len(s) >= 1
    /\ AllChars(s, Digits)
    /\ (Len(s) > 1 => Char(s, 1) # "0")

\* NONNUMERICIDENTIFIER: \d*[a-zA-Z-][a-zA-Z0-9-]*
IsNonNumericId(s) ==
    /\ Len(s) >= 1
    /\ AllChars(s, Digits \cup Letters \cup {"-"})
    /\ ~AllChars(s, Digits)

\* BUILDIDENTIFIER: [0-9A-Za-z-]+
IsBuildId(s) == Len(s) >= 1 /\ AllChars(s, Digits \cup Letters \cup {"-"})

AllParts(parts, P(_)) == \A i \in 1..Len(parts) : P(parts[i])

IsPreId(s) == IsNumericId(s) \/ IsNonNumericId(s)

SemverValid(v) ==
    LET body == IF StartsWith(v, "v") THEN From(v, 2) ELSE v
        plus == Occurrences(body, "+")
        core == IF plus = {} THEN body ELSE SubSeq(body, 1, Min(plus) - 1)
        build == IF plus = {} THEN "" ELSE From(body, Min(plus) + 1)
        dash == Occurrences(core, "-")
        main == IF dash = {} THEN core ELSE SubSeq(core, 1, Min(dash) - 1)
        pre == IF dash = {} THEN "" ELSE From(core, Min(dash) + 1)
        nums == Split(main, ".")
        ok == /\ Len(nums) = 3
              /\ AllParts(nums, IsNumericId)
              /\ (dash # {} => AllParts(Split(pre, "."), IsPreId))
              /\ (plus # {} => AllParts(Split(build, "."), IsBuildId))
    IN  IF ok THEN core ELSE ""

(***************************************************************************)
(* The regular expressions of getInstallPackage and getPackageName.        *)
(* A match result is <<>> for null and <<group 1>> for a match.            *)
(***************************************************************************)
TarballExtensions == {".tgz", ".tar.gz"}

\* /^.+\.(tgz|tar\.gz)$/
MatchesTarball(s) ==
    \E ext \in TarballExtensions : EndsWith(s, ext) /\ Len(s) > Len(ext)

\* /^http/
MatchesHttp(s) == StartsWith(s, "http")

\* The tail (?:-\d+.+)\.(tgz|tar\.gz)$ starting at the beginning of t.
MatchesVersionTail(t) ==
    /\ Len(t) >= 2
    /\ Char(t, 1) = "-"
    /\ IsDigit(Char(t, 2))
    /\ \E ext \in TarballExtensions : EndsWith(t, ext) /\ Len(t) - Len(ext) >= 3

\* The lengths k for which (.+?) = first k characters of r lets the rest of
\* the pattern (?:-\d+.+)?\.(tgz|tar\.gz)$ match.
StemLengths(r) ==
    {k \in 1..Len(r) :
        LET t == From(r, k + 1)
        IN  t \in TarballExtensions \/ MatchesVersionTail(t)}

\* /^.+\/(.+?)(?:-\d+.+)?\.(tgz|tar\.gz)$/ : the greedy ^.+\/ ends at the last
\* "/" after which the rest matches; the lazy (.+?) is the shortest stem.
MatchTarballFilename(s) ==
    LET slashes == {p \in 2..Len(s) :
                        Char(s, p) = "/" /\ StemLengths(From(s, p + 1)) # {}}
    IN  IF slashes = {}
        THEN <<>>
        ELSE LET r == From(s, Max(slashes) + 1)
             IN  <<SubSeq(r, 1, Min(StemLengths(r)))>>

\* /([^/]+)\.git(#.*)?$/ : leftmost start, greedy [^/]+.
MatchGitUrl(s) ==
    LET ends == {g \in Occurrences(s, ".git") :
                    g + 4 = Len(s) + 1 \/ Char(s, g + 4) = "#"}
        NoSlash(i, j) == \A k \in i..j : Char(s, k) # "/"
        EndsFrom(i) == {g \in ends : i < g /\ NoSlash(i, g - 1)}
        starts == {i \in 1..Len(s) : EndsFrom(i) # {}}
    IN  IF starts = {}
        THEN <<>>
        ELSE LET i == Min(starts)
             IN  <<SubSeq(s, i, Max(EndsFrom(i)) - 1)>>

\* /.+@/
MatchesQualifier(s) == \E i \in Occurrences(s, "@") : i >= 2

\* installPackage.charAt(0) + installPackage.substr(1).split('@')[0]
StripQualifier(s) == Char(s, 1) \o Split(From(s, 2), "@")[1]

\* /^file:/
MatchesFile(s) == StartsWith(s, "file:")

\* s.match(/^file:(.*)?$/)[1] : an optional group that could only match the
\* empty string does not participate, so group 1 is undefined (<<>>).
MatchFilePath(s) == IF Len(s) > 5 THEN <<From(s, 6)>> ELSE <<>>

(***************************************************************************)
(* The inputs and the environment of one run.                              *)
(***************************************************************************)
\* The largest number of entries the target directory holds before the run.
MaxEntries == 2

\* process.cwd() when the tool is started.
StartDirectory == "/home/u"

\* <project-directory>
ProjectNames == {"my-app", "work/my-app"}

\* --scripts-version <alternative-package>
ScriptsVersions ==
    {"1.2.3", "v1.2.3", "1.0.0-rc.tgz", "@next",
     "file:../my-scripts", "file:../@me/scripts", "file:nowhere", "file:",
     "./foo-1.2.3.tgz", "foo-1.2.3.tgz", "https://x.io/bar-0.8.2.tar.gz",
     "git+https://x.io/org/myrepo.git#v1.2.3", "git+https://x.io/org/norepo",
     "@scope/pkg@1.0.0", "@scope/pkg", "my-k8s-scripts"}

\* program.scriptsVersion: <<>> when the option is absent.
VersionOptions == {<<>>} \cup {<<v>> : v \in ScriptsVersions}

\* Names an entry of the target directory can have.
EntryNames ==
    {".git", "README.md", "dist", "package.json", "node_modules",
     "npm-debug.log", "npm-debug.log.1234", "x-npm-debug.log"}

\* The package.json files require() finds outside the target directory.
LocalManifests ==
    ("/home/my-scripts/package.json" :> "my-fork-scripts")
        @@ ("/home/@me/scripts/package.json" :> "me-scripts")

\* The name field of the package.json unpacked from a tarball.
TarballManifestNames == {"bar"}

\* Exit codes of the npm child process.
ExitCodes == {0, 1, 2}

\* What npm can leave in the project root.
InstallerArtifacts(code) ==
    IF code = 0 THEN {"node_modules"} ELSE {"node_modules", "npm-debug.log"}

\* What the initializer can leave in the project root before it throws.
InitArtifacts == {"src"}

(***************************************************************************)
(* isSafeToCreateProjectIn                                                 *)
(***************************************************************************)
errorLogFilePatterns == {"npm-debug.log"}

\* validFiles with package.json taken for a benign entry.
validFiles_WithManifest ==
    {".DS_Store", "Thumbs.db", ".git", ".gitignore", "README.md", "LICENSE",
     ".npmignore", "docs", ".gitlab-ci.yml", ".gitattributes", "package.json"}

validFiles ==
    {".DS_Store", "Thumbs.db", ".git", ".gitignore", "README.md", "LICENSE",
     ".npmignore", "docs", ".gitlab-ci.yml", ".gitattributes"}

\* IsErrorLogFile with "contains the pattern" in place of "starts with it".
IsErrorLogFile_Contains(file) ==
    \E pattern \in errorLogFilePatterns : IndexOf(file, pattern) >= 0

\* errorLogFilePatterns.some(pattern => file.indexOf(pattern) === 0)
IsErrorLogFile(file) ==
    \E pattern \in errorLogFilePatterns : IndexOf(file, pattern) = 0

\* readdirSync(root).filter(not valid).filter(not error log)
Conflicts(files) ==
    {file \in {f \in files : f \notin validFiles} : ~IsErrorLogFile(file)}

\* RemnantFiles with "is the pattern" in place of "starts with it".
RemnantFiles_ExactName(files) == {file \in files : file \in errorLogFilePatterns}

\* The entries the forEach at the end of isSafeToCreateProjectIn removes.
RemnantFiles(files) == {file \in files : IsErrorLogFile(file)}

\* IsSafe with the comparison off by one.
IsSafe_OffByOne(conflicts) == ~(Cardinality(conflicts) > 1)

\* The return value, from conflicts.length > 0.
IsSafe(conflicts) == ~(Cardinality(conflicts) > 0)

(***************************************************************************)
(* getInstallPackage                                                       *)
(***************************************************************************)
Returned(value) == [threw |-> FALSE, value |-> value]

Thrown == [threw |-> TRUE, value |-> ""]

getInstallPackage(ver, originalDirectory) ==
    LET v == IF Len(ver) = 0 THEN "" ELSE ver[1]
        validSemver == IF Len(ver) = 0 THEN "" ELSE SemverValid(v)
    IN  IF validSemver # ""
        THEN Returned("k8s-scripts" \o "@" \o validSemver)
        ELSE IF v # ""
             THEN IF Char(v, 1) = "@" /\ IndexOf(v, "/") = -1
                  THEN Returned("k8s-scripts" \o v)
                  ELSE IF MatchesFile(v)
                       THEN IF Len(MatchFilePath(v)) = 0
                            \* path.resolve(originalDirectory, undefined): TypeError
                            THEN Thrown
                            ELSE Returned("file:" \o
                                     PathResolve(originalDirectory, MatchFilePath(v)[1]))
                       ELSE Returned(v)
             ELSE Returned("k8s-scripts")

(***************************************************************************)
(* getPackageName: what the call itself does, before any callback runs.    *)
(* kind "tarball": the promise chain on getTemporaryDirectory is returned; *)
(* kind "resolved": Promise.resolve(value); kind "threw": the call throws. *)
(***************************************************************************)
getPackageName(installPackage) ==
    IF MatchesTarball(installPackage)
    THEN [kind |-> "tarball", value |-> ""]
    ELSE IF IndexOf(installPackage, "git+") = 0
    THEN IF Len(MatchGitUrl(installPackage)) = 0
         \* null[1]: TypeError
         THEN [kind |-> "threw", value |-> ""]
         ELSE [kind |-> "resolved", value |-> MatchGitUrl(installPackage)[1]]
    ELSE IF MatchesQualifier(installPackage)
    THEN [kind |-> "resolved", value |-> StripQualifier(installPackage)]
    ELSE IF MatchesFile(installPackage)
    THEN LET p == MatchFilePath(installPackage)
             manifestPath == PathJoin(p[1], "package.json")
         IN  IF Len(p) = 0 \/ manifestPath \notin DOMAIN LocalManifests
             \* path.join(undefined, ...) or require of a missing file throws
             THEN [kind |-> "threw", value |-> ""]
             ELSE [kind |-> "resolved", value |-> LocalManifests[manifestPath]]
    ELSE [kind |-> "resolved", value |-> installPackage]

\* The .catch of the tarball chain: the name assumed from the file name.
assumedProjectName(installPackage) == MatchTarballFilename(installPackage)

(***************************************************************************)
(* install                                                                 *)
(***************************************************************************)
command == "npm"

\* InstallArgs without the push of --verbose.
InstallArgs_NoVerbose(dependencies, verb) ==
    <<"install", "--save", "--save-exact", "--loglevel", "error">> \o dependencies

\* args as built before spawn: the fixed flags, the dependencies, then
\* args.push('--verbose').
InstallArgs(dependencies, verb) ==
    (<<"install", "--save", "--save-exact", "--loglevel", "error">> \o dependencies)
        \o (IF verb THEN <<"--verbose">> ELSE <<>>)

\* args.join(' ')
RECURSIVE JoinSpace(_)
JoinSpace(args) ==
    IF Len(args) = 0 THEN ""
    ELSE IF Len(args) = 1 THEN args[1]
    ELSE args[1] \o " " \o JoinSpace(Tail(args))

\* `${command} ${args.join(' ')}`
CommandLine(cmd, args) == cmd \o " " \o JoinSpace(args)

\* InstallRejects that takes only exit code 1 for a failure.
InstallRejects_OnlyOne(code) == code = 1

\* child.on('close'): code !== 0 rejects.
InstallRejects(code) == code # 0

(***************************************************************************)
(* run: the rollback handler                                               *)
(***************************************************************************)
\* knownGeneratedFiles without node_modules.
knownGeneratedFiles_NoModules == {"package.json"}

knownGeneratedFiles == {"package.json", "node_modules"}

\* The entries left after the generated files are removed.
RemainingFiles(files) == files \ knownGeneratedFiles

\* DeletesRoot with the test inverted.
DeletesRoot_Inverted(remainingFiles) == Cardinality(remainingFiles) > 0

\* !remainingFiles.length
DeletesRoot(remainingFiles) == Cardinality(remainingFiles) = 0

(***************************************************************************)
(* The state of one run.                                                   *)
(***************************************************************************)
VARIABLES
    projectName,      \* <project-directory>
    verbose,          \* program.verbose
    version,          \* program.scriptsVersion, <<>> when absent
    pc,               \* where the run is
    cwd,              \* process.cwd()
    dirExists,        \* the target directory exists
    dir,              \* the entries of the target directory
    dirExists0,       \* dirExists before the run
    dir0,             \* dir before the run
    guardResult,      \* what isSafeToCreateProjectIn returned
    reported,         \* the conflicts it printed
    writtenManifest,  \* <<the object written to package.json>>, <<>> before
    originalDirectory,\* process.cwd() as createApp saved it, "" before
    packageToInstall, \* getInstallPackage's result
    nameState,        \* the promise of getPackageName
    packageName,      \* the value it resolved with
    tmpAcquired,      \* temporary directories tmp.dir provided
    tmpReleased,      \* calls of obj.cleanup
    spawned,          \* the spawn calls: command, args, cwd
    childCode,        \* the exit code the close event carried, -1 before
    installState,     \* the promise of install
    installSettles,   \* how many times it was resolved or rejected
    failure,          \* the stage that failed, "none" if none
    reasonCommand,    \* reason.command in the rollback handler, "" if none
    beforeRollback,   \* dir when the rollback handler started
    initCalls,        \* the calls of init: scriptsPath and arguments
    exitCode,         \* process exit code, -1 while running
    exitVia           \* which exit ended the process

inputVars == <<projectName, verbose, version, dirExists0, dir0>>

guardVars == <<guardResult, reported>>

nameVars == <<nameState, packageName, tmpAcquired, tmpReleased>>

installVars == <<spawned, childCode, installState, installSettles>>

endVars == <<beforeRollback, initCalls, exitCode, exitVia>>

vars ==
    <<projectName, verbose, version, pc, cwd, dirExists, dir, dirExists0, dir0,
      guardResult, reported, writtenManifest, originalDirectory,
      packageToInstall, nameState,
      packageName, tmpAcquired, tmpReleased, spawned, childCode, installState,
      installSettles, failure, reasonCommand, beforeRollback, initCalls,
      exitCode, exitVia>>

\* const root = path.resolve(name)
root == PathResolve(StartDirectory, projectName)

\* const appName = path.basename(root)
appName == PathBasename(root)

\* path.resolve(root, '..')
rootParent == PathResolve(root, "..")

Init ==
    /\ projectName \in ProjectNames
    /\ verbose \in BOOLEAN
    /\ version \in VersionOptions
    /\ dirExists0 \in BOOLEAN
    /\ dir0 \in {d \in SUBSET EntryNames : Cardinality(d) <= MaxEntries}
    /\ (~dirExists0 => dir0 = {})
    /\ pc = "start"
    /\ cwd = StartDirectory
    /\ dirExists = dirExists0
    /\ dir = dir0
    /\ guardResult = FALSE
    /\ reported = {}
    /\ writtenManifest = <<>>
    /\ originalDirectory = ""
    /\ packageToInstall = ""
    /\ nameState = "none"
    /\ packageName = ""
    /\ tmpAcquired = 0
    /\ tmpReleased = 0
    /\ spawned = <<>>
    /\ childCode = -1
    /\ installState = "none"
    /\ installSettles = 0
    /\ failure = "none"
    /\ reasonCommand = ""
    /\ beforeRollback = {}
    /\ initCalls = <<>>
    /\ exitCode = -1
    /\ exitVia = "none"

(***************************************************************************)
(* createApp                                                               *)
(***************************************************************************)
\* fs.ensureDirSync(name)
EnsureDir ==
    /\ pc = "start"
    /\ pc' = "ensured"
    /\ dirExists' = TRUE
    /\ UNCHANGED <<inputVars, cwd, dir, guardVars, writtenManifest,
                   originalDirectory, packageToInstall, nameVars, installVars, failure,
                   reasonCommand, endVars>>

\* isSafeToCreateProjectIn(root, name)
Guard ==
    /\ pc = "ensured"
    /\ LET conflicts == Conflicts(dir)
       IN  IF ~IsSafe(conflicts)
           THEN /\ reported' = conflicts
                /\ guardResult' = FALSE
                /\ dir' = dir
           ELSE /\ reported' = {}
                /\ guardResult' = TRUE
                /\ dir' = dir \ RemnantFiles(dir)
    /\ pc' = "guardChecked"
    /\ UNCHANGED <<inputVars, cwd, dirExists, writtenManifest,
                   originalDirectory, packageToInstall, nameVars, installVars, failure,
                   reasonCommand, endVars>>

\* if (!isSafeToCreateProjectIn(root, name)) process.exit(1)
ExitOnConflict ==
    /\ pc = "guardChecked"
    /\ ~guardResult
    /\ pc' = "exited"
    /\ exitCode' = 1
    /\ exitVia' = "conflict"
    /\ UNCHANGED <<inputVars, cwd, dirExists, dir, guardVars, writtenManifest,
                   originalDirectory, packageToInstall, nameVars, installVars, failure,
                   reasonCommand, beforeRollback, initCalls>>

\* fs.writeFileSync(package.json); originalDirectory = process.cwd();
\* process.chdir(root)
WriteManifest ==
    /\ pc = "guardChecked"
    /\ guardResult
    /\ writtenManifest' =
           <<[name |-> appName, version |-> "0.1.0", private |-> TRUE]>>
    /\ dir' = dir \cup {"package.json"}
    /\ originalDirectory' = cwd
    /\ cwd' = root
    /\ pc' = "manifestWritten"
    /\ UNCHANGED <<inputVars, dirExists, guardVars, packageToInstall, nameVars,
                   installVars, failure, reasonCommand, endVars>>

(***************************************************************************)
(* run                                                                     *)
(***************************************************************************)
\* An exception thrown in run's own statements, outside the promise chain:
\* nothing catches it and node ends the process with exit code 1.
Uncaught(stage) ==
    /\ pc' = "exited"
    /\ failure' = stage
    /\ exitCode' = 1
    /\ exitVia' = "uncaught"

\* const packageToInstall = getInstallPackage(version, originalDirectory)
Resolve ==
    /\ pc = "manifestWritten"
    /\ LET r == getInstallPackage(version, originalDirectory)
       IN  IF r.threw
           THEN /\ Uncaught("resolve")
                /\ UNCHANGED packageToInstall
           ELSE /\ packageToInstall' = r.value
                /\ pc' = "resolved"
                /\ UNCHANGED <<failure, exitCode, exitVia>>
    /\ UNCHANGED <<inputVars, cwd, dirExists, dir, guardVars, writtenManifest,
                   originalDirectory, nameVars, installVars, reasonCommand, beforeRollback,
                   initCalls>>

\* getPackageName(packageToInstall): the call, up to the promise it returns.
GetPackageName ==
    /\ pc = "resolved"
    /\ LET r == getPackageName(packageToInstall)
       IN  CASE r.kind = "threw" ->
                    /\ Uncaught("name")
                    /\ nameState' = "threw"
                    /\ UNCHANGED packageName
              [] r.kind = "resolved" ->
                    /\ nameState' = "resolved"
                    /\ packageName' = r.value
                    /\ pc' = "named"
                    /\ UNCHANGED <<failure, exitCode, exitVia>>
              [] r.kind = "tarball" ->
                    /\ nameState' = "pending"
                    /\ pc' = "tmpDir"
                    /\ UNCHANGED <<packageName, failure, exitCode, exitVia>>
    /\ UNCHANGED <<inputVars, cwd, dirExists, dir, guardVars, writtenManifest,
                   originalDirectory, packageToInstall, tmpAcquired, tmpReleased, installVars,
                   reasonCommand, beforeRollback, initCalls>>

\* getTemporaryDirectory: the callback of tmp.dir, then the first .then of
\* the tarball chain (the stream is opened and piped into unpack).
TmpDirCallback ==
    /\ pc = "tmpDir"
    /\ \E err \in BOOLEAN :
           IF err
           THEN /\ pc' = "nameCatch"
                /\ UNCHANGED tmpAcquired
           ELSE /\ pc' = "extracting"
                /\ tmpAcquired' = tmpAcquired + 1
    /\ UNCHANGED <<inputVars, cwd, dirExists, dir, guardVars, writtenManifest,
                   originalDirectory, packageToInstall, nameState, packageName, tmpReleased,
                   installVars, failure, reasonCommand, endVars>>

\* extractStream: the callback of unpack.
ExtractCallback ==
    /\ pc = "extracting"
    /\ \E err \in BOOLEAN :
           pc' = IF err THEN "nameCatch" ELSE "unpacked"
    /\ UNCHANGED <<inputVars, cwd, dirExists, dir, guardVars, writtenManifest,
                   originalDirectory, packageToInstall, nameVars, installVars, failure,
                   reasonCommand, endVars>>

\* The second .then: require(tmpdir/package.json).name; obj.cleanup().
ReadTarballManifest ==
    /\ pc = "unpacked"
    /\ \/ \* require throws: no package.json was unpacked
          /\ pc' = "nameCatch"
          /\ UNCHANGED <<nameState, packageName, tmpReleased>>
       \/ \E n \in TarballManifestNames :
              /\ packageName' = n
              /\ tmpReleased' = tmpReleased + 1
              /\ nameState' = "resolved"
              /\ pc' = "named"
    /\ UNCHANGED <<inputVars, cwd, dirExists, dir, guardVars, writtenManifest,
                   originalDirectory, packageToInstall, tmpAcquired, installVars, failure,
                   reasonCommand, endVars>>

\* The .catch of the tarball chain.
NameCatch ==
    /\ pc = "nameCatch"
    /\ LET m == assumedProjectName(packageToInstall)
       IN  IF Len(m) = 0
           \* null[1]: the TypeError rejects the promise getPackageName returned
           THEN /\ nameState' = "rejected"
                /\ failure' = "name"
                /\ pc' = "failed"
                /\ UNCHANGED packageName
           ELSE /\ nameState' = "resolved"
                /\ packageName' = m[1]
                /\ pc' = "named"
                /\ UNCHANGED failure
    /\ UNCHANGED <<inputVars, cwd, dirExists, dir, guardVars, writtenManifest,
                   originalDirectory, packageToInstall, tmpAcquired, tmpReleased, installVars,
                   reasonCommand, endVars>>

\* .then(packageName => install(root, allDependencies, verbose)): the spawn.
Install ==
    /\ pc = "named"
    /\ spawned' = Append(spawned,
                     [command |-> command,
                      args |-> InstallArgs(<<packageToInstall>>, verbose),
                      cwd |-> cwd])
    /\ installState' = "pending"
    /\ pc' = "installing"
    /\ UNCHANGED <<inputVars, cwd, dirExists, dir, guardVars, writtenManifest,
                   originalDirectory, packageToInstall, nameVars, childCode,
                   installSettles, failure, reasonCommand, endVars>>

\* child.on('close', code => ...): npm has ended, leaving what it wrote.
ChildClose ==
    /\ pc = "installing"
    /\ \E code \in ExitCodes :
         \E left \in SUBSET InstallerArtifacts(code) :
           /\ dir' = dir \cup left
           /\ childCode' = code
           /\ installSettles' = installSettles + 1
           /\ IF InstallRejects(code)
              THEN /\ installState' = "rejected"
                   /\ reasonCommand' =
                          CommandLine(command,
                                      InstallArgs(<<packageToInstall>>, verbose))
                   /\ failure' = "install"
                   /\ pc' = "failed"
              ELSE /\ installState' = "resolved"
                   /\ pc' = "installed"
                   /\ UNCHANGED <<reasonCommand, failure>>
    /\ UNCHANGED <<inputVars, cwd, dirExists, guardVars, writtenManifest,
                   originalDirectory, packageToInstall, nameVars, spawned,
                   endVars>>

\* path.resolve(process.cwd(), 'node_modules', packageName, 'scripts', 'init.js')
scriptsPath ==
    PathResolve(cwd, "node_modules/" \o packageName \o "/scripts/init.js")

\* InitCall that passes the working directory of the moment of the call.
InitCall_CurrentDirectory ==
    [path |-> scriptsPath,
     args |-> <<root, appName, verbose, cwd>>]

\* init(root, appName, verbose, originalDirectory)
InitCall ==
    [path |-> scriptsPath,
     args |-> <<root, appName, verbose, originalDirectory>>]

\* A throw in the last .then as if no .catch followed it: the rejection is
\* handled nowhere.
InitThrows_Unhandled ==
    /\ failure' = "init"
    /\ pc' = "exited"
    /\ exitCode' = 1
    /\ exitVia' = "uncaught"

\* A throw in the last .then rejects the chain; the .catch after it takes it.
InitThrows ==
    /\ failure' = "init"
    /\ pc' = "failed"
    /\ UNCHANGED <<exitCode, exitVia>>

\* The last .then: require(scriptsPath) and the call of init.
InvokeInit ==
    /\ pc = "installed"
    /\ \/ \* require(scriptsPath) throws
          /\ InitThrows
          /\ UNCHANGED <<dir, initCalls>>
       \/ \* init returns
          /\ "node_modules" \in dir
          /\ initCalls' = Append(initCalls, InitCall)
          /\ pc' = "initInvoked"
          /\ UNCHANGED <<dir, failure, exitCode, exitVia>>
       \/ \* init throws, after writing some of its files
          /\ "node_modules" \in dir
          /\ \E left \in SUBSET InitArtifacts :
                 dir' = dir \cup left
          /\ initCalls' = Append(initCalls, InitCall)
          /\ InitThrows
    /\ UNCHANGED <<inputVars, cwd, dirExists, guardVars, writtenManifest,
                   originalDirectory, packageToInstall, nameVars, installVars,
                   reasonCommand, beforeRollback>>

\* .catch(reason => ...): the rollback handler.
Rollback ==
    /\ pc = "failed"
    /\ beforeRollback' = dir
    /\ LET remainingFiles == RemainingFiles(dir)
       IN  IF DeletesRoot(remainingFiles)
           THEN /\ cwd' = rootParent
                /\ dirExists' = FALSE
                /\ dir' = {}
           ELSE /\ dir' = remainingFiles
                /\ UNCHANGED <<cwd, dirExists>>
    /\ exitCode' = 1
    /\ exitVia' = "rollback"
    /\ pc' = "exited"
    /\ UNCHANGED <<inputVars, guardVars, writtenManifest, originalDirectory,
                   packageToInstall, nameVars, installVars, failure,
                   reasonCommand, initCalls>>

Next ==
    \/ EnsureDir
    \/ Guard
    \/ ExitOnConflict
    \/ WriteManifest
    \/ Resolve
    \/ GetPackageName
    \/ TmpDirCallback
    \/ ExtractCallback
    \/ ReadTarballManifest
    \/ NameCatch
    \/ Install
    \/ ChildClose
    \/ InvokeInit
    \/ Rollback

Spec == Init /\ [][Next]_vars

(***************************************************************************)
(* Properties.                                                             *)
(***************************************************************************)
ErrorLogPrefix == "npm-debug.log"

HasErrorLogPrefix(f) == StartsWith(f, ErrorLogPrefix)

RolledBack == pc = "exited" /\ exitVia = "rollback"

\* C1: every failure after the manifest is written and before the
\* initializer is invoked (resolution, name extraction, installation) ends
\* in the rollback handler and exit code 1.
C1_EveryFailureRollsBack ==
    (pc = "exited" /\ failure \in {"resolve", "name", "install"})
        => (exitVia = "rollback" /\ exitCode = 1)

\* C2: after rollback the root holds neither package.json nor node_modules;
\* if nothing else is left the root is deleted and the working directory is
\* its parent, otherwise the root and the other entries are kept; the exit
\* code is 1.
C2_RollbackResult ==
    RolledBack =>
        LET rest == beforeRollback \ {"package.json", "node_modules"}
        IN  /\ "package.json" \notin dir
            /\ "node_modules" \notin dir
            /\ exitCode = 1
            /\ IF rest = {}
               THEN ~dirExists /\ cwd = rootParent
               ELSE dirExists /\ dir = rest

C2_Witness ==
    /\ RolledBack
    /\ "node_modules" \in beforeRollback
    /\ "package.json" \in beforeRollback
    /\ ~dirExists
    /\ cwd = rootParent

\* C3 as stated: after a run that ends aborted the target directory
\* exists exactly when it existed before and holds the same entries.
C3_PreRunStateRestored ==
    RolledBack => (dirExists = dirExists0 /\ dir = dir0)

\* C3 as amended: after a run that ends aborted every entry from before the
\* run is still there except error-log files, package.json and node_modules
\* are absent, an entry that is new was left by npm or the initializer, and
\* the directory exists exactly when it holds an entry.
C3_RollbackKeepsForeignEntries ==
    RolledBack =>
        /\ {f \in dir0 : ~HasErrorLogPrefix(f)} \subseteq dir
        /\ dir \cap {"package.json", "node_modules"} = {}
        /\ dir \ dir0 \subseteq (InstallerArtifacts(childCode) \cup InitArtifacts)
        /\ dirExists <=> dir # {}

C3_Witness ==
    /\ RolledBack
    /\ dirExists0
    /\ dir0 = {"npm-debug.log.1234"}
    /\ ~dirExists

\* A pre-run entry that is neither allowed nor an error log.
HadConflict ==
    \E f \in dir0 : f \notin validFiles /\ ~HasErrorLogPrefix(f)

\* C4: the guard completes before the manifest is written, and with a
\* conflicting entry the run writes no manifest, spawns no installer, keeps
\* the working directory, changes nothing under the target directory except
\* possibly deleting error-log files, and exits with code 1.
C4_ConflictLeavesNoTrace ==
    /\ Len(writtenManifest) > 0 => (pc \notin {"start", "ensured"} /\ guardResult)
    /\ HadConflict =>
           /\ Len(writtenManifest) = 0
           /\ Len(spawned) = 0
           /\ cwd = StartDirectory
           /\ dir \subseteq dir0
           /\ \A f \in dir0 \ dir : HasErrorLogPrefix(f)
           /\ dirExists0
           /\ pc \in {"start", "ensured", "guardChecked", "exited"}
           /\ pc = "exited" => (exitCode = 1 /\ exitVia = "conflict")

C4_Witness ==
    /\ pc = "exited"
    /\ exitVia = "conflict"
    /\ dir0 = {"dist", "npm-debug.log"}
    /\ dir = dir0

\* C5: the guard returns true exactly when every entry is in the allow-list
\* or starts with the error-log prefix; otherwise it reports exactly the
\* entries that are neither.
C5_GuardVerdict ==
    pc \notin {"start", "ensured"} =>
        LET neither == {f \in dir0 : f \notin validFiles /\ ~HasErrorLogPrefix(f)}
        IN  /\ guardResult <=> neither = {}
            /\ ~guardResult => reported = neither
            /\ guardResult => reported = {}

C5_Witness ==
    /\ pc = "guardChecked"
    /\ ~guardResult
    /\ dir0 = {".git", "dist"}
    /\ reported = {"dist"}

\* C6 as stated: every call of the guard, whatever it returns, deletes
\* exactly the entries that start with the error-log prefix.
C6_GuardAlwaysPurges ==
    pc = "guardChecked" => dir = {f \in dir0 : ~HasErrorLogPrefix(f)}

\* C6 as amended: a call that returns true deletes exactly the entries that
\* start with the error-log prefix; a call that returns false deletes
\* nothing.
C6_GuardPurgesWhenSafe ==
    pc = "guardChecked" =>
        dir = IF guardResult
              THEN {f \in dir0 : ~HasErrorLogPrefix(f)}
              ELSE dir0

C6_Witness ==
    /\ pc = "guardChecked"
    /\ guardResult
    /\ dir0 = {"README.md", "npm-debug.log.1234"}
    /\ dir = {"README.md"}

\* C7: install spawns one child and settles once, when the child closes:
\* resolved exactly for exit code 0, otherwise rejected with the command
\* line that was invoked.
C7_InstallSettlesOnce ==
    /\ Len(spawned) <= 1
    /\ installSettles <= Len(spawned)
    /\ installState = "none" <=> Len(spawned) = 0
    /\ installState = "pending" <=> (Len(spawned) = 1 /\ childCode = -1)
    /\ installState \in {"resolved", "rejected"} =>
           (installSettles = 1 /\ childCode \in ExitCodes)
    /\ installState = "resolved" <=> childCode = 0
    /\ installState = "rejected" =>
           reasonCommand = spawned[1].command \o " " \o JoinSpace(spawned[1].args)
    /\ installState # "rejected" => reasonCommand = ""

C7_Witness ==
    /\ installState = "rejected"
    /\ childCode = 2
    /\ installSettles = 1
    /\ reasonCommand =
           "npm install --save --save-exact --loglevel error k8s-scripts@next --verbose"

FixedInstallArgs == <<"install", "--save", "--save-exact", "--loglevel", "error">>

\* C8 as stated: npm runs in the project root with the fixed flags, then
\* --verbose if requested, then the references.
C8_VerboseBeforeReferences ==
    Len(spawned) > 0 =>
        /\ spawned[1].cwd = StartDirectory \o "/" \o projectName
        /\ spawned[1].args =
               (FixedInstallArgs \o (IF verbose THEN <<"--verbose">> ELSE <<>>))
                   \o <<packageToInstall>>

\* C8 as amended: npm runs in the project root with the fixed flags, then
\* the references, then --verbose if and only if requested.
C8_VerboseAfterReferences ==
    Len(spawned) > 0 =>
        /\ spawned[1].command = "npm"
        /\ spawned[1].cwd = StartDirectory \o "/" \o projectName
        /\ spawned[1].args =
               (FixedInstallArgs \o <<packageToInstall>>)
                   \o (IF verbose THEN <<"--verbose">> ELSE <<>>)

C8_Witness ==
    /\ Len(spawned) = 1
    /\ verbose
    /\ spawned[1].cwd = "/home/u/work/my-app"
    /\ spawned[1].args[6] = "file:/home/my-scripts"
    /\ spawned[1].args[7] = "--verbose"

\* C9: for a tarball reference a failure while the name is extracted is
\* recovered inside getPackageName: it resolves with the name inferred from
\* the file name and never rejects or throws.
C9_TarballFailureRecovered ==
    MatchesTarball(packageToInstall) =>
        (nameState \notin {"rejected", "threw"} /\ failure # "name")

\* C10: a temporary directory is acquired only for a tarball, at most once,
\* and is released by the time the name extraction settles.
C10_WorkspaceReleased ==
    /\ tmpAcquired <= 1
    /\ tmpAcquired > 0 => MatchesTarball(packageToInstall)
    /\ nameState \in {"resolved", "rejected"} => tmpReleased = tmpAcquired

\* C11: the stages run one after the other in the order guard, manifest,
\* resolution, name extraction, install, initializer: npm is spawned only
\* after the name extraction resolved and while package.json exists, and
\* init is called at most once, only after npm exited with code 0, with
\* (root, appName, verbose, the working directory from before the chdir).
C11_StagesInOrder ==
    /\ Len(writtenManifest) > 0 => guardResult
    /\ pc \in {"start", "ensured"} => Len(writtenManifest) = 0
    /\ packageToInstall # "" => Len(writtenManifest) > 0
    /\ nameState # "none" => packageToInstall # ""
    /\ nameState = "pending" => (Len(spawned) = 0 /\ Len(initCalls) = 0)
    /\ Len(spawned) > 0 => nameState = "resolved"
    /\ pc = "installing" => ("package.json" \in dir /\ installState = "pending")
    /\ installState = "pending" => Len(initCalls) = 0
    /\ Len(initCalls) <= 1
    /\ Len(initCalls) = 1 =>
           /\ installState = "resolved"
           /\ childCode = 0
           /\ initCalls[1].args =
                  <<StartDirectory \o "/" \o projectName, "my-app", verbose,
                    StartDirectory>>

C11_Witness ==
    /\ pc = "initInvoked"
    /\ Len(initCalls) = 1
    /\ projectName = "work/my-app"
    /\ cwd = "/home/u/work/my-app"
    /\ initCalls[1].args = <<"/home/u/work/my-app", "my-app", TRUE, "/home/u">>
    /\ packageName = "myrepo"

\* What C12 says getInstallPackage returns for the version option.
C12_Expected ==
    IF Len(version) = 0
    THEN "k8s-scripts"
    ELSE LET v == version[1]
         IN  IF SemverValid(v) # ""
             THEN "k8s-scripts@" \o v
             ELSE IF StartsWith(v, "@") /\ Occurrences(v, "/") = {}
                  THEN "k8s-scripts" \o v
                  ELSE IF StartsWith(v, "file:")
                       THEN "file:" \o PathResolve(StartDirectory, From(v, 6))
                       ELSE v

\* C12: getInstallPackage returns for every input: the bare name when the
\* version is absent, name@V for a valid semantic version V, name followed
\* by S for a tag S, file: and the path resolved against the original
\* working directory for file:P, and the input itself otherwise.
C12_ResolveTotal ==
    /\ failure # "resolve"
    /\ packageToInstall # "" => packageToInstall = C12_Expected

\* The segment of a git URL between its last "/" and ".git", the #<ref>
\* left aside; "" when the URL has no such segment.
C13_GitSegment(url) ==
    LET base == Split(url, "#")[1]
        segs == Split(base, "/")
        last == segs[Len(segs)]
    IN  IF EndsWith(last, ".git") THEN SubSeq(last, 1, Len(last) - 4) ELSE ""

\* C13: once the name extraction has settled, a reference that starts with
\* file: and has a package.json at its path gave the name declared there,
\* and a reference that starts with git+ gave the segment between the last
\* "/" and ".git".
C13_FileAndGitNames ==
    nameState \in {"resolved", "rejected", "threw"} =>
        /\ (/\ StartsWith(packageToInstall, "file:")
            /\ (From(packageToInstall, 6) \o "/package.json") \in DOMAIN LocalManifests)
               => /\ nameState = "resolved"
                  /\ packageName =
                         LocalManifests[From(packageToInstall, 6) \o "/package.json"]
        /\ (/\ StartsWith(packageToInstall, "git+")
            /\ C13_GitSegment(packageToInstall) # "")
               => /\ nameState = "resolved"
                  /\ packageName = C13_GitSegment(packageToInstall)

\* The version option is absent, a valid semantic version or a dist-tag.
C14_RegistryInput ==
    \/ Len(version) = 0
    \/ /\ Len(version) = 1
       /\ \/ SemverValid(version[1]) # ""
          \/ StartsWith(version[1], "@") /\ Occurrences(version[1], "/") = {}

\* The version option is a scoped reference @scope/pkg@qualifier.
C14_ScopedQualified ==
    /\ Len(version) = 1
    /\ StartsWith(version[1], "@")
    /\ Occurrences(version[1], "/") # {}
    /\ Occurrences(From(version[1], 2), "@") # {}

\* The version option is a bare or scoped package name without qualifier.
C14_PlainName ==
    /\ Len(version) = 1
    /\ SemverValid(version[1]) = ""
    /\ Occurrences(From(version[1], 2), "@") = {}
    /\ Occurrences(version[1], ":") = {}
    /\ ~MatchesTarball(version[1])
    /\ (StartsWith(version[1], "@") => Occurrences(version[1], "/") # {})

\* C14: once the name extraction has settled, the name is k8s-scripts for an
\* absent version, a valid semantic version and a dist-tag, @scope/pkg for
\* @scope/pkg@qualifier, and the input itself for a plain name; init is
\* looked up under node_modules/<that name>/scripts/init.js.
C14_RegistryNameRecovered ==
    /\ nameState \in {"resolved", "rejected", "threw"} =>
           /\ C14_RegistryInput =>
                  (nameState = "resolved" /\ packageName = "k8s-scripts")
           /\ C14_ScopedQualified =>
                  /\ nameState = "resolved"
                  /\ packageName =
                         SubSeq(version[1], 1,
                                Min(Occurrences(From(version[1], 2), "@")))
           /\ C14_PlainName =>
                  (nameState = "resolved" /\ packageName = version[1])
    /\ (/\ Len(initCalls) > 0
        /\ (C14_RegistryInput \/ C14_ScopedQualified \/ C14_PlainName)) =>
           initCalls[1].path =
               (((root \o "/node_modules/") \o packageName) \o "/scripts/init.js")

\* C15: a failure after a successful install (init.js missing or failing
\* to load, or init throwing) goes to the rollback handler: package.json and
\* node_modules are deleted, the root is deleted if it is then empty, and
\* the process exits with code 1.
C15_InitFailureRollsBack ==
    /\ failure = "init" =>
           /\ pc \in {"failed", "exited"}
           /\ installState = "resolved"
           /\ childCode = 0
    /\ (failure = "init" /\ pc = "exited") =>
           /\ exitVia = "rollback"
           /\ exitCode = 1
           /\ dir \cap {"package.json", "node_modules"} = {}
           /\ ~dirExists <=> beforeRollback \subseteq {"package.json", "node_modules"}

C15_Witness ==
    /\ failure = "init"
    /\ RolledBack
    /\ Len(initCalls) = 1
    /\ beforeRollback = {"package.json", "node_modules"}
    /\ ~dirExists

\* C16: no entry from before the run is deleted or overwritten except
\* error-log files: the manifest is written only when neither package.json
\* nor node_modules was there, and rollback removes only package.json,
\* node_modules and the root once it is empty.
C16_PreExistingEntriesKept ==
    /\ \A f \in dir0 : ~HasErrorLogPrefix(f) => f \in dir
    /\ Len(writtenManifest) > 0 =>
           dir0 \cap {"package.json", "node_modules"} = {}
    /\ RolledBack =>
           /\ beforeRollback \ dir \subseteq {"package.json", "node_modules"}
           /\ ~dirExists => dir = {}

C16_Witness ==
    /\ RolledBack
    /\ dir0 = {".git", "npm-debug.log"}
    /\ beforeRollback = {".git", "package.json", "node_modules"}
    /\ dir = {".git"}

====
